---- MODULE Spec2Model ----
(***************************************************************************)
(* Model of priv/vision_detector.py: the VisionDetector sidecar.           *)
(*                                                                         *)
(* Two threads share one VisionDetector object: the main thread executes   *)
(* run() (open the capture, loop read -> process_frame -> write), and the  *)
(* daemon thread executes listen_stdin() (one command per stdin line).     *)
(* Each action below is one step of one of the two threads; the other      *)
(* thread may run between any two steps.                                   *)
(*                                                                         *)
(* Numbers.  Thresholds are kept in thousandths (0.35 is 350), detection   *)
(* confidences in 1/100000, motion scores in 1/1000000, elapsed times in    *)
(* ticks of                                                                *)
(* 1/100 millisecond.  Rates are                                           *)
(* kept in units of 1/Scale frames per second, Scale a power of ten large  *)
(* enough that every 0.9/0.1 blend the bounded run can perform is exact.   *)
(* The rate estimator is a fold of Ema over the elapsed-time samples; the  *)
(* specification SpecRate applies it to every bounded sample sequence,     *)
(* while Spec, the two-thread program, draws its samples from ElapsedTicks. *)
(* Command lines are sequences of one-character strings.                   *)
(***************************************************************************)
EXTENDS Integers, Sequences, FiniteSets, TLC

VARIABLES
    running,        \* self.running
    frame_count,    \* self.frame_count
    prev_gray,      \* self.prev_gray (NoGray is None)
    lastGray,       \* history: the gray image of the last frame process_frame
                    \* returned a record for (NoGray before the first)
    fps_ema,        \* self.fps_ema, in 1/Scale fps
    conf,           \* self.conf, in thousandths
    target_classes, \* self.target_classes
    pc,             \* position of the main thread in run()/process_frame()
    lpc,            \* position of the listener thread in listen_stdin()
    cap,            \* run's local cap: the capture handle
    frame,          \* run's local frame
    argConf,        \* the conf argument evaluated for model.predict
    argClasses,     \* the classes argument evaluated for model.predict
    usedConf,       \* the threshold the last predict call ran with
    motion,         \* process_frame's local motion
    results,        \* process_frame's local results: the boxes predict returned
    result,         \* process_frame's return value
    exc,            \* the exception that ended run's while loop
    exit,           \* process exit status (Alive while the process runs)
    out,            \* the lines written to stdout, in order
    readLog,        \* history: the outcome of every cap.read(), in order
    opens,          \* history: the number of cv2.VideoCapture(...) calls
    firstOpen,      \* history: outcome of the first open
    linesRead,      \* history: the number of stdin lines consumed
    lexit,          \* history: why the listener left its loop
    samples,        \* history: the number of elapsed-time samples taken
    claimEma,       \* history: the estimate the documented recurrence gives
    confAtStart,    \* history: self.conf when the frame in flight started
    confDuring,     \* history: a valid CONF was applied to the frame in flight
    framesAfterStop, \* history: frame events written since running was cleared
    pending,        \* history: a cap.read() whose line is not written yet
    afterBad        \* history: malformed line seen / command applied after one

vars == << running, frame_count, prev_gray, lastGray, fps_ema, conf, target_classes,
           pc, lpc, cap, frame, argConf, argClasses, usedConf, motion, results,
           result, exc, exit, out, readLog, opens, firstOpen, linesRead,
           lexit, samples, claimEma, confAtStart, confDuring,
           framesAfterStop, pending, afterBad >>

----------------------------------------------------------------------------
(* Bounds of the model *)

MaxReads == 5
MaxLines == 2
MaxSamples == 5

(* Program constants *)

DefaultConf == 350

----------------------------------------------------------------------------
(* Values *)

NoGray == -1
Alive == -1
Scale == 10 ^ 6
Frames == {10, 200}
TicksPerSecond == 100000
ElapsedTicks == {15012}
ElapsedSamples == {0, 5000, 10000}
NoClasses == [none |-> TRUE, ids |-> << >>]
NoResult == [fps |-> 0, detections |-> << >>, motion |-> 0, frame |-> 0,
             inference_ms |-> 0]
NoCap == [opened |-> FALSE, released |-> TRUE]

----------------------------------------------------------------------------
(* Text: lines of stdin as sequences of one-character strings, and the     *)
(* str/float/int operations listen_stdin applies to them.                  *)

K_STOP == << "S", "T", "O", "P" >>
K_CONF == << "C", "O", "N", "F", ":" >>
K_CLASSES == << "C", "L", "A", "S", "S", "E", "S", ":" >>

L_Stop == << "S", "T", "O", "P" >>
L_StopSp == << "S", "T", "O", "P", " " >>
L_Conf05 == << "C", "O", "N", "F", ":", "0", ".", "5" >>
L_Conf15 == << "C", "O", "N", "F", ":", "1", ".", "5" >>
L_ConfAbc == << "C", "O", "N", "F", ":", "a", "b", "c" >>
L_Classes02 == << "C", "L", "A", "S", "S", "E", "S", ":", "0", ",", "2" >>
L_Classes1x == << "C", "L", "A", "S", "S", "E", "S", ":", "1", ",", "x" >>
L_Foo == << "F", "O", "O" >>

(* The lines of Lines that are no well-formed command: a CONF: payload    *)
(* that is no number, a CLASSES: list with an item that is no integer,    *)
(* a line that is no command.                                             *)
MalformedLines == { L_ConfAbc, L_Classes1x, L_Foo }

Lines == { L_Stop, L_StopSp, L_Conf05, L_Conf15, L_ConfAbc, L_Classes02,
           L_Classes1x, L_Foo }

Digits == << "0", "1", "2", "3", "4", "5", "6", "7", "8", "9" >>

IsDigit(c) == \E d \in 1..10 : Digits[d] = c

DigitVal(c) == (CHOOSE d \in 1..10 : Digits[d] = c) - 1

IsSpace(c) == c = " "

AllDigits(s) == \A i \in 1..Len(s) : IsDigit(s[i])

RECURSIVE NatVal(_)
NatVal(s) ==
    IF s = << >> THEN 0
    ELSE NatVal(SubSeq(s, 1, Len(s) - 1)) * 10 + DigitVal(s[Len(s)])

RECURSIVE LStrip(_)
LStrip(s) == IF s # << >> /\ IsSpace(Head(s)) THEN LStrip(Tail(s)) ELSE s

RECURSIVE RStrip(_)
RStrip(s) ==
    IF s # << >> /\ IsSpace(s[Len(s)])
    THEN RStrip(SubSeq(s, 1, Len(s) - 1))
    ELSE s

Strip(s) == RStrip(LStrip(s))

StartsWith(s, p) == Len(s) >= Len(p) /\ SubSeq(s, 1, Len(p)) = p

Drop(s, n) == SubSeq(s, n + 1, Len(s))

Unsigned(s) == IF s # << >> /\ Head(s) \in {"+", "-"} THEN Tail(s) ELSE s

SignOf(s) == IF s # << >> /\ Head(s) = "-" THEN -1 ELSE 1

Min(S) == CHOOSE x \in S : \A y \in S : x <= y

RECURSIVE Split(_, _)
Split(s, sep) ==
    LET at == {i \in 1..Len(s) : s[i] = sep}
    IN  IF at = {} THEN << s >>
        ELSE << SubSeq(s, 1, Min(at) - 1) >> \o Split(Drop(s, Min(at)), sep)

ValueError == [ok |-> FALSE, val |-> 0]

(* The fraction digits as thousandths: "5" is 500, "35" is 350. *)
FracMilli(fp) ==
    LET d(i) == IF i <= Len(fp) THEN DigitVal(fp[i]) ELSE 0
    IN  100 * d(1) + 10 * d(2) + d(3)

(* float(s) for decimal literals: optional sign, digits, optional point.   *)
(* The value is in thousandths.                                            *)
ParseFloat(s) ==
    LET u    == Unsigned(Strip(s))
        dots == {i \in 1..Len(u) : u[i] = "."}
        ip   == IF dots = {} THEN u ELSE SubSeq(u, 1, Min(dots) - 1)
        fp   == IF dots = {} THEN << >> ELSE Drop(u, Min(dots))
    IN  IF AllDigits(ip) /\ AllDigits(fp) /\ Len(ip) + Len(fp) >= 1
        THEN [ok |-> TRUE,
              val |-> SignOf(Strip(s)) * (1000 * NatVal(ip) + FracMilli(fp))]
        ELSE ValueError

(* int(s) for decimal literals: optional sign, at least one digit. *)
ParseInt(s) ==
    LET u == Unsigned(Strip(s))
    IN  IF u # << >> /\ AllDigits(u)
        THEN [ok |-> TRUE, val |-> SignOf(Strip(s)) * NatVal(u)]
        ELSE ValueError

(* [int(c) for c in s.split(",")]: ValueError unless every item parses. *)
ParseClasses(s) ==
    LET parts == Split(s, ",")
    IN  IF \A i \in 1..Len(parts) : ParseInt(parts[i]).ok
        THEN [ok |-> TRUE,
              val |-> [i \in 1..Len(parts) |-> ParseInt(parts[i]).val]]
        ELSE [ok |-> FALSE, val |-> << >>]

----------------------------------------------------------------------------
(* Numbers *)

Abs(x) == IF x < 0 THEN -x ELSE x

(* round() to a multiple of unit, ties to even, for x >= 0. *)
RoundTo(x, unit) ==
    LET q == x \div unit
        r == x % unit
    IN  IF 2 * r > unit \/ (2 * r = unit /\ q % 2 = 1)
        THEN (q + 1) * unit
        ELSE q * unit

(* fps = 1.0 / elapsed if elapsed > 0 else 0; elapsed in ticks.  The value *)
(* is TicksPerSecond * Scale \div e, divided in two steps to stay within   *)
(* the integers of the checker.                                            *)
InstRate(e) ==
    LET big == TicksPerSecond * 1000
        k   == Scale \div 1000
    IN  IF e > 0 THEN (big \div e) * k + ((big % e) * k) \div e ELSE 0

(* self.fps_ema = 0.9 * self.fps_ema + 0.1 * fps if self.fps_ema > 0 else fps *)
Ema(prev, fps) == IF prev > 0 THEN (9 * prev + fps) \div 10 ELSE fps

(* The gray-level image of a frame: frames are uniform images, so the      *)
(* conversion and the blur leave the one gray level.                       *)
Gray(f) == f

(* float(np.mean(absdiff(prev, gray)) / 255.0), in 1/1000000. *)
MotionOf(prev, gray) ==
    IF prev = NoGray THEN 0 ELSE (Abs(prev - gray) * 1000000) \div 255

(* The boxes the engine finds in a frame before any filtering, in its     *)
(* output order: the inference engine is outside the program, and this is  *)
(* its stand-in.                                                           *)
Candidates(f) ==
    IF f = 10 THEN << [cls |-> 0, conf |-> 87654] >>
    ELSE << [cls |-> 0, conf |-> 87654], [cls |-> 2, conf |-> 42149] >>

(* model.predict(frame, conf=th, classes=classes): the boxes at or above   *)
(* the threshold whose class passes the filter.                            *)
Detect(f, th, classes) ==
    LET Keep(b) == /\ b.conf >= 100 * th
                   /\ classes.none \/ \E i \in 1..Len(classes.ids) :
                                          classes.ids[i] = b.cls
    IN  SelectSeq(Candidates(f), Keep)

(* round(confidence, 3) *)
RoundConf(c) == RoundTo(c, 100)

(* Variant: the motion score is rounded like the confidences. *)
RoundMotionThree(m) == RoundTo(m, 1000)

(* round(motion, 4) *)
RoundMotion(m) == RoundTo(m, 100)

(* round(self.fps_ema, 1) *)
RoundFps(r) == RoundTo(r, Scale \div 10)

(* round(elapsed * 1000, 1), in 1/100 millisecond *)
RoundMs(e) == RoundTo(e, 10)

Line(kind, n) == [kind |-> kind, frame |-> n]

----------------------------------------------------------------------------
(* State after VisionDetector.__init__: the fields are set and the ready   *)
(* status has been printed; neither thread has started.                    *)

(* Variant: the flag starts cleared. *)
RunningAtInitFalse == FALSE

(* self.running = True *)
RunningAtInit == TRUE

Init ==
    /\ running = RunningAtInit
    /\ frame_count = 0
    /\ prev_gray = NoGray
    /\ lastGray = NoGray
    /\ fps_ema = 0
    /\ conf = DefaultConf
    /\ target_classes = NoClasses
    /\ pc = "start"
    /\ lpc = "idle"
    /\ cap = NoCap
    /\ frame = NoGray
    /\ argConf = DefaultConf
    /\ argClasses = NoClasses
    /\ usedConf = DefaultConf
    /\ motion = 0
    /\ results = << >>
    /\ result = NoResult
    /\ exc = "none"
    /\ exit = Alive
    /\ out = << Line("ready", 0) >>
    /\ readLog = << >>
    /\ opens = 0
    /\ firstOpen = "none"
    /\ linesRead = 0
    /\ lexit = "none"
    /\ samples = 0
    /\ claimEma = 0
    /\ confAtStart = DefaultConf
    /\ confDuring = FALSE
    /\ framesAfterStop = 0
    /\ pending = FALSE
    /\ afterBad = "none"

mainVars == << frame_count, prev_gray, lastGray, fps_ema, pc, cap, frame, argConf,
               argClasses, usedConf, motion, results, result, exc, exit, out, readLog,
               opens, firstOpen, samples, claimEma, confAtStart,
               framesAfterStop, pending >>

(* The variables of the main thread other than the output *)
mainVarsButOut == << frame_count, prev_gray, lastGray, fps_ema, pc, cap, frame, argConf,
                     argClasses, usedConf, motion, results, result, exc, exit, readLog,
                     opens, firstOpen, samples, claimEma, confAtStart,
                     framesAfterStop, pending >>

listenerVars == << running, conf, target_classes, lpc, linesRead, lexit,
                   afterBad >>

(* The positions at which a frame is being processed by process_frame,     *)
(* after its parameters were read.                                         *)
InFlightPcs == {"pf_classes", "pf_predict", "pf_motion", "pf_rate"}

(* The positions inside run's try block. *)
TryPcs == {"loop", "read", "drop", "sleep", "release", "reopen", "pf_conf",
           "write"} \cup InFlightPcs

----------------------------------------------------------------------------
(* listen_stdin, on the daemon thread.  The thread dies with the process.  *)

(* Variant: the listener reports on stdout. *)
ListenerWritesError == << Line("error", 0) >>

(* The lines listen_stdin writes to stdout: it has no print. *)
ListenerWrites == << >>

(* Variant: a CONF: payload that does not parse sets the threshold to 0. *)
ConfAfterZeroOnError(c) ==
    IF c # K_STOP /\ StartsWith(c, K_CONF)
    THEN ParseFloat(Drop(c, Len(K_CONF))).val
    ELSE conf

(* self.conf after the command c *)
ConfAfter(c) ==
    IF c # K_STOP /\ StartsWith(c, K_CONF) /\ ParseFloat(Drop(c, Len(K_CONF))).ok
    THEN ParseFloat(Drop(c, Len(K_CONF))).val
    ELSE conf

(* self.target_classes after the command c *)
ClassesAfter(c) ==
    IF /\ c # K_STOP
       /\ ~StartsWith(c, K_CONF)
       /\ StartsWith(c, K_CLASSES)
       /\ ParseClasses(Drop(c, Len(K_CLASSES))).ok
    THEN [none |-> FALSE, ids |-> ParseClasses(Drop(c, Len(K_CLASSES))).val]
    ELSE target_classes

(* self.running after the command c *)
RunningAfter(c) == IF c = K_STOP THEN FALSE ELSE running

(* Variant: STOP clears running but the loop goes on to the next line. *)
LpcAfterNoBreak(c) == "read"

(* break after STOP; every other command falls through to the next line *)
LpcAfter(c) == IF c = K_STOP THEN "done" ELSE "read"

(* One iteration of "for line in sys.stdin" *)
ListenLine(line) ==
    /\ lpc = "read"
    /\ exit = Alive
    /\ linesRead < MaxLines
    /\ linesRead' = linesRead + 1
    /\ running' = RunningAfter(Strip(line))
    /\ conf' = ConfAfter(Strip(line))
    /\ target_classes' = ClassesAfter(Strip(line))
    /\ lpc' = LpcAfter(Strip(line))
    /\ lexit' = IF Strip(line) = K_STOP THEN "stop" ELSE lexit
    /\ confDuring' = (confDuring \/ (pc \in InFlightPcs /\ conf' # conf))
    /\ afterBad' = IF line \in MalformedLines /\ afterBad = "none" THEN "bad"
                   ELSE IF line \notin MalformedLines /\ afterBad = "bad"
                        THEN "applied"
                        ELSE afterBad
    /\ out' = out \o ListenerWrites
    /\ UNCHANGED mainVarsButOut

(* sys.stdin is exhausted: the for loop ends. *)
ListenEOF ==
    /\ lpc = "read"
    /\ exit = Alive
    /\ lpc' = "done"
    /\ lexit' = "eof"
    /\ UNCHANGED << running, conf, target_classes, linesRead, confDuring,
                    afterBad >>
    /\ out' = out \o ListenerWrites
    /\ UNCHANGED mainVarsButOut

(* Variant: the handler leaves self.running alone. *)
RunningOnErrorKept == running

(* self.running in the "except Exception" handler *)
RunningOnError == FALSE

(* Reading sys.stdin raises: "except Exception: self.running = False". *)
ListenError ==
    /\ lpc = "read"
    /\ exit = Alive
    /\ running' = RunningOnError
    /\ lpc' = "done"
    /\ lexit' = "error"
    /\ UNCHANGED << conf, target_classes, linesRead, confDuring, afterBad >>
    /\ out' = out \o ListenerWrites
    /\ UNCHANGED mainVarsButOut

----------------------------------------------------------------------------
(* run, on the main thread *)

(* stdin_thread.start() *)
StartListener ==
    /\ pc = "start"
    /\ pc' = "open"
    /\ lpc' = "read"
    /\ UNCHANGED << running, conf, target_classes, linesRead, lexit,
                    confDuring, afterBad >>
    /\ UNCHANGED << frame_count, prev_gray, lastGray, fps_ema, cap, frame, argConf,
                    argClasses, usedConf, motion, results, result, exc, exit, out,
                    readLog, opens, firstOpen, samples, claimEma, confAtStart,
                    framesAfterStop, pending >>

(* Variant: the result of the first open is not examined. *)
PcAfterOpenUnchecked(ok) == "loop"

(* if not cap.isOpened(): the error branch, else the loop *)
PcAfterOpen(ok) == IF ok THEN "loop" ELSE "open_err"

(* cap = cv2.VideoCapture(...); if not cap.isOpened(): ... *)
OpenFirst(ok) ==
    /\ pc = "open"
    /\ cap' = [opened |-> ok, released |-> FALSE]
    /\ opens' = opens + 1
    /\ firstOpen' = IF ok THEN "ok" ELSE "failed"
    /\ pc' = PcAfterOpen(ok)
    /\ UNCHANGED << frame_count, prev_gray, lastGray, fps_ema, frame, argConf,
                    argClasses, usedConf, motion, results, result, exc, exit, out,
                    readLog, samples, claimEma, confAtStart, framesAfterStop,
                    pending >>
    /\ UNCHANGED << listenerVars, confDuring >>

(* print({"error": "Cannot open RTSP stream", ...}); sys.exit(1) *)
OpenError ==
    /\ pc = "open_err"
    /\ out' = Append(out, Line("error", 0))
    /\ exit' = 1
    /\ pc' = "done"
    /\ UNCHANGED << frame_count, prev_gray, lastGray, fps_ema, cap, frame, argConf,
                    argClasses, usedConf, motion, results, result, exc, readLog, opens,
                    firstOpen, samples, claimEma, confAtStart,
                    framesAfterStop, pending >>
    /\ UNCHANGED << listenerVars, confDuring >>

(* Variant: the loop never looks at self.running. *)
LoopIgnoresStop == TRUE

(* The loop condition: self.running *)
LoopContinues == running

(* while self.running: *)
LoopTest ==
    /\ pc = "loop"
    /\ pc' = IF LoopContinues THEN "read" ELSE "finally"
    /\ UNCHANGED << frame_count, prev_gray, lastGray, fps_ema, cap, frame, argConf,
                    argClasses, usedConf, motion, results, result, exc, exit, out,
                    readLog, opens, firstOpen, samples, claimEma, confAtStart,
                    framesAfterStop, pending >>
    /\ UNCHANGED << listenerVars, confDuring >>

(* Variant: a failed read reconnects without the diagnostic. *)
PcAfterReadSilent(ret) == IF ret THEN "pf_conf" ELSE "sleep"

(* if not ret: the frame_drop branch, else process_frame *)
PcAfterRead(ret) == IF ret THEN "pf_conf" ELSE "drop"

(* ret, frame = cap.read(); a capture that is not open yields no frame. *)
Read(ret, f) ==
    /\ pc = "read"
    /\ Len(readLog) < MaxReads
    /\ ret => (cap.opened /\ ~cap.released)
    /\ frame' = IF ret THEN f ELSE NoGray
    /\ readLog' = Append(readLog, ret)
    /\ pc' = PcAfterRead(ret)
    /\ pending' = TRUE
    /\ UNCHANGED << frame_count, prev_gray, lastGray, fps_ema, cap, argConf,
                    argClasses, usedConf, motion, results, result, exc, exit, out,
                    opens, firstOpen, samples, claimEma, confAtStart,
                    framesAfterStop >>
    /\ UNCHANGED << listenerVars, confDuring >>

(* Variant: the diagnostic names the frame that was expected next. *)
DropFrameFieldNext(n) == n + 1

(* "frame": self.frame_count in the frame_drop diagnostic *)
DropFrameField(n) == n

(* Variant: the handle is released right after the diagnostic. *)
PcAfterDropRelease == "release"

(* The statement after the frame_drop print is time.sleep(1). *)
PcAfterDrop == "sleep"

(* print({"error": "frame_drop", "frame": self.frame_count}) *)
EmitDrop ==
    /\ pc = "drop"
    /\ out' = Append(out, Line("frame_drop", DropFrameField(frame_count)))
    /\ pending' = FALSE
    /\ pc' = PcAfterDrop
    /\ UNCHANGED << frame_count, prev_gray, lastGray, fps_ema, cap, frame, argConf,
                    argClasses, usedConf, motion, results, result, exc, exit, readLog,
                    opens, firstOpen, samples, claimEma, confAtStart,
                    framesAfterStop >>
    /\ UNCHANGED << listenerVars, confDuring >>

(* time.sleep(1) *)
Sleep ==
    /\ pc = "sleep"
    /\ pc' = "release"
    /\ UNCHANGED << frame_count, prev_gray, lastGray, fps_ema, cap, frame, argConf,
                    argClasses, usedConf, motion, results, result, exc, exit, out,
                    readLog, opens, firstOpen, samples, claimEma, confAtStart,
                    framesAfterStop, pending >>
    /\ UNCHANGED << listenerVars, confDuring >>

(* cap.release() *)
Release ==
    /\ pc = "release"
    /\ cap' = [cap EXCEPT !.released = TRUE]
    /\ pc' = "reopen"
    /\ UNCHANGED << frame_count, prev_gray, lastGray, fps_ema, frame, argConf,
                    argClasses, usedConf, motion, results, result, exc, exit, out,
                    readLog, opens, firstOpen, samples, claimEma, confAtStart,
                    framesAfterStop, pending >>
    /\ UNCHANGED << listenerVars, confDuring >>

(* Variant: a reopen that fails ends the loop. *)
PcAfterReopenChecked(ok) == IF ok THEN "loop" ELSE "finally"

(* continue: back to the loop test, whether the reopen succeeded or not *)
PcAfterReopen(ok) == "loop"

(* cap = cv2.VideoCapture(...); continue.  The result is not examined. *)
Reopen(ok) ==
    /\ pc = "reopen"
    /\ cap' = [opened |-> ok, released |-> FALSE]
    /\ opens' = opens + 1
    /\ pc' = PcAfterReopen(ok)
    /\ UNCHANGED << frame_count, prev_gray, lastGray, fps_ema, frame, argConf,
                    argClasses, usedConf, motion, results, result, exc, exit, out,
                    readLog, firstOpen, samples, claimEma, confAtStart,
                    framesAfterStop, pending >>
    /\ UNCHANGED << listenerVars, confDuring >>

----------------------------------------------------------------------------
(* process_frame, called by run for each frame read *)

(* A local is part of the state only while it is live: when the frame's   *)
(* processing ends, the locals of that frame take their initial values.   *)
LocalsDie ==
    /\ frame' = NoGray
    /\ argConf' = DefaultConf
    /\ argClasses' = NoClasses
    /\ confAtStart' = DefaultConf
    /\ confDuring' = FALSE
    /\ results' = << >>

(* t0 = time.monotonic(); the argument conf=self.conf is evaluated. *)
PfConf ==
    /\ pc = "pf_conf"
    /\ argConf' = conf
    /\ confAtStart' = conf
    /\ confDuring' = FALSE
    /\ pc' = "pf_classes"
    /\ UNCHANGED << frame_count, prev_gray, lastGray, fps_ema, cap, frame, argClasses,
                    usedConf, motion, results, result, exc, exit, out, readLog, opens,
                    firstOpen, samples, claimEma, framesAfterStop, pending >>
    /\ UNCHANGED listenerVars

(* The argument classes=self.target_classes is evaluated. *)
PfClasses ==
    /\ pc = "pf_classes"
    /\ argClasses' = target_classes
    /\ pc' = "pf_predict"
    /\ UNCHANGED << frame_count, prev_gray, lastGray, fps_ema, cap, frame, argConf,
                    usedConf, motion, results, result, exc, exit, out, readLog, opens,
                    firstOpen, samples, claimEma, confAtStart,
                    framesAfterStop, pending >>
    /\ UNCHANGED << listenerVars, confDuring >>

(* Variant: the engine reads self.conf while it runs. *)
UsedThresholdLive == conf

(* The threshold model.predict runs with: the argument it was given. *)
UsedThreshold == argConf

(* Variant: a failed detection call is swallowed and the frame skipped. *)
PcAfterPredictSkip(ok) == IF ok THEN "pf_motion" ELSE "loop"

(* After predict: on to compute_motion, or the exception propagates out of *)
(* process_frame and the while loop to run's finally block.                *)
PcAfterPredict(ok) == IF ok THEN "pf_motion" ELSE "finally"

(* self.model.predict(...) returns, or raises: the exception leaves        *)
(* process_frame and the while loop, and run's finally block runs.         *)
PfPredict(ok) ==
    /\ pc = "pf_predict"
    /\ IF ok
       THEN /\ usedConf' = UsedThreshold
            /\ results' = Detect(frame, UsedThreshold, argClasses)
            /\ UNCHANGED << frame, argConf, argClasses, exc, confAtStart,
                            confDuring >>
       ELSE /\ exc' = "error"
            /\ UNCHANGED usedConf
            /\ LocalsDie
    /\ pc' = PcAfterPredict(ok)
    /\ UNCHANGED << frame_count, prev_gray, lastGray, fps_ema, cap, motion, result,
                    exit, out, readLog, opens, firstOpen, samples, claimEma,
                    framesAfterStop, pending >>
    /\ UNCHANGED listenerVars

(* Variant: only the first image is ever stored. *)
HistoryKeptFirst(prev, gray) == IF prev = NoGray THEN gray ELSE prev

(* self.prev_gray = gray, on both paths of compute_motion *)
HistoryAfter(prev, gray) == gray

(* motion = self.compute_motion(frame) *)
ComputeMotion ==
    /\ pc = "pf_motion"
    /\ motion' = MotionOf(prev_gray, Gray(frame))
    /\ prev_gray' = HistoryAfter(prev_gray, Gray(frame))
    /\ pc' = "pf_rate"
    /\ UNCHANGED << lastGray, frame_count, fps_ema, cap, frame, argConf, argClasses,
                    usedConf, results, result, exc, exit, out, readLog, opens,
                    firstOpen, samples, claimEma, confAtStart,
                    framesAfterStop, pending >>
    /\ UNCHANGED << listenerVars, confDuring >>

(* Variant: the counter is set instead of incremented. *)
RestartCount(n) == 1

(* self.frame_count += 1 *)
NextFrameCount(n) == n + 1

(* The estimate the documented recurrence gives: the first sample seeds    *)
(* it, every later sample is blended.                                      *)
ClaimedEma(n, prev, fps) == IF n = 0 THEN fps ELSE (9 * prev + fps) \div 10

(* elapsed = ...; fps = ...; self.fps_ema = ...; self.frame_count += 1;    *)
(* return {...}                                                            *)
PfRate(elapsed) ==
    /\ pc = "pf_rate"
    /\ fps_ema' = Ema(fps_ema, InstRate(elapsed))
    /\ frame_count' = NextFrameCount(frame_count)
    /\ result' = [fps          |-> RoundFps(fps_ema'),
                  detections   |-> [i \in 1..Len(results) |->
                                      [cls  |-> results[i].cls,
                                       conf |-> RoundConf(results[i].conf)]],
                  motion       |-> RoundMotion(motion),
                  frame        |-> frame_count',
                  inference_ms |-> RoundMs(elapsed)]
    /\ samples' = samples + 1
    /\ claimEma' = ClaimedEma(samples, claimEma, InstRate(elapsed))
    /\ pc' = "write"
    /\ LocalsDie
    /\ usedConf' = DefaultConf
    /\ motion' = 0
    /\ lastGray' = Gray(frame)
    /\ UNCHANGED << prev_gray, cap, exc, exit, out, readLog, opens, firstOpen,
                    framesAfterStop, pending >>
    /\ UNCHANGED listenerVars

(* sys.stdout.write(json.dumps(result) + "\n"); sys.stdout.flush() *)
WriteFrame ==
    /\ pc = "write"
    /\ out' = Append(out, Line("frame", result.frame))
    /\ framesAfterStop' = IF running THEN framesAfterStop
                          ELSE framesAfterStop + 1
    /\ pending' = FALSE
    /\ result' = NoResult
    /\ pc' = "loop"
    /\ UNCHANGED << frame_count, prev_gray, lastGray, fps_ema, cap, frame, argConf,
                    argClasses, usedConf, motion, results, exc, exit, readLog, opens,
                    firstOpen, samples, claimEma, confAtStart >>
    /\ UNCHANGED << listenerVars, confDuring >>

----------------------------------------------------------------------------
(* The end of run *)

(* KeyboardInterrupt raised in the main thread inside the try block:       *)
(* "except KeyboardInterrupt: pass", then the finally block.               *)
Interrupt ==
    /\ pc \in TryPcs
    /\ pc' = "finally"
    /\ exc' = "interrupt"
    /\ LocalsDie
    /\ usedConf' = DefaultConf
    /\ motion' = 0
    /\ result' = NoResult
    /\ UNCHANGED << frame_count, prev_gray, lastGray, fps_ema, cap, exit, out,
                    readLog, opens, firstOpen, samples, claimEma,
                    framesAfterStop, pending >>
    /\ UNCHANGED listenerVars

(* Variant: the finally block does not release the capture. *)
CapNotReleased == cap

(* cap after the finally block's cap.release() *)
CapAfterFinalRelease == [cap EXCEPT !.released = TRUE]

(* finally: cap.release() *)
FinalRelease ==
    /\ pc = "finally"
    /\ cap' = CapAfterFinalRelease
    /\ pc' = "stopped"
    /\ UNCHANGED << frame_count, prev_gray, lastGray, fps_ema, frame, argConf,
                    argClasses, usedConf, motion, results, result, exc, exit, out,
                    readLog, opens, firstOpen, samples, claimEma, confAtStart,
                    framesAfterStop, pending >>
    /\ UNCHANGED << listenerVars, confDuring >>

(* The exit status: run returns and main ends, or the exception that left *)
(* the loop ends the process.                                              *)
ExitStatus(e) == IF e = "error" THEN 1 ELSE 0

(* Variant: the status is printed after the try statement, not in its     *)
(* finally block, so a propagating exception skips it.                     *)
StoppedOnlyOnReturn(e) ==
    IF e = "error" THEN << >> ELSE << Line("stopped", 0) >>

(* The finally block prints the status whatever way the try block ended:   *)
(* loop exit, swallowed KeyboardInterrupt (e = "interrupt") or an          *)
(* exception still propagating (e = "error").                              *)
StoppedAfter(e) == << Line("stopped", 0) >>

(* print({"status": "stopped"}); run returns, or the pending exception     *)
(* ends the process.                                                       *)
EmitStopped ==
    /\ pc = "stopped"
    /\ out' = out \o StoppedAfter(exc)
    /\ exit' = ExitStatus(exc)
    /\ pc' = "done"
    /\ UNCHANGED << frame_count, prev_gray, lastGray, fps_ema, cap, frame, argConf,
                    argClasses, usedConf, motion, results, result, exc, readLog, opens,
                    firstOpen, samples, claimEma, confAtStart,
                    framesAfterStop, pending >>
    /\ UNCHANGED << listenerVars, confDuring >>

----------------------------------------------------------------------------

Next ==
    \/ \E line \in Lines : ListenLine(line)
    \/ ListenEOF
    \/ ListenError
    \/ StartListener
    \/ \E ok \in BOOLEAN : OpenFirst(ok)
    \/ OpenError
    \/ LoopTest
    \/ \E ret \in BOOLEAN, f \in Frames : Read(ret, f)
    \/ EmitDrop
    \/ Sleep
    \/ Release
    \/ \E ok \in BOOLEAN : Reopen(ok)
    \/ PfConf
    \/ PfClasses
    \/ \E ok \in BOOLEAN : PfPredict(ok)
    \/ ComputeMotion
    \/ \E elapsed \in ElapsedTicks : PfRate(elapsed)
    \/ WriteFrame
    \/ Interrupt
    \/ FinalRelease
    \/ EmitStopped

Spec == Init /\ [][Next]_vars

(* The steps of the main thread.  The thread is scheduled as long as it    *)
(* has a step to take; the interrupt is a signal, not a step of its own.   *)
MainNext ==
    \/ StartListener
    \/ \E ok \in BOOLEAN : OpenFirst(ok)
    \/ OpenError
    \/ LoopTest
    \/ \E ret \in BOOLEAN, f \in Frames : Read(ret, f)
    \/ EmitDrop
    \/ Sleep
    \/ Release
    \/ \E ok \in BOOLEAN : Reopen(ok)
    \/ PfConf
    \/ PfClasses
    \/ \E ok \in BOOLEAN : PfPredict(ok)
    \/ ComputeMotion
    \/ \E elapsed \in ElapsedTicks : PfRate(elapsed)
    \/ WriteFrame
    \/ FinalRelease
    \/ EmitStopped

FairSpec == Spec /\ WF_vars(MainNext)

----------------------------------------------------------------------------
(* The rate estimator alone: lines 97-99 of process_frame applied to a     *)
(* sequence of elapsed-time samples.                                       *)

RateSample(elapsed) ==
    /\ samples < MaxSamples
    /\ fps_ema' = Ema(fps_ema, InstRate(elapsed))
    /\ samples' = samples + 1
    /\ claimEma' = ClaimedEma(samples, claimEma, InstRate(elapsed))
    /\ UNCHANGED << frame_count, prev_gray, lastGray, cap, frame, argConf, argClasses,
                    usedConf, motion, results, result, exc, exit, out, readLog, opens,
                    firstOpen, confAtStart, framesAfterStop, pending, pc >>
    /\ UNCHANGED << listenerVars, confDuring >>

NextRate == \E elapsed \in ElapsedSamples : RateSample(elapsed)

SpecRate == Init /\ [][NextRate]_vars

----------------------------------------------------------------------------
(* Properties *)

IsFrame(l) == l.kind = "frame"
IsReadLine(l) == l.kind \in {"frame", "frame_drop"}
FrameLines == SelectSeq(out, IsFrame)
ReadLines == SelectSeq(out, IsReadLine)
ShutdownPcs == {"finally", "stopped", "done"}

(* C1: the frame index carried by the n-th frame event written is n, in    *)
(* every interleaving of successful reads, failed reads with reconnects,   *)
(* and commands: it starts at 1, grows by one per frame event, and no      *)
(* reconnect resets it.                                                    *)
C1_FrameIndexIsOrdinal ==
    \A i \in 1..Len(FrameLines) : FrameLines[i].frame = i

(* A frame event, a frame_drop with its reconnect, two more frame events,  *)
(* and a command read meanwhile.                                           *)
C1_Witness ==
    /\ Len(FrameLines) >= 3
    /\ \E i \in 1..Len(out) :
          /\ out[i].kind = "frame_drop"
          /\ out[i].frame = 1
          /\ i < Len(out)
    /\ opens >= 2
    /\ linesRead >= 1
    /\ out[Len(out)].kind = "frame"

(* C2: once running is cleared while the supervisor streams, at most one   *)
(* further frame event is written; after it the supervisor only heads for  *)
(* shutdown; when it has ended the capture is released and "stopped" is     *)
(* the last line; no line ever follows "stopped".                          *)
C2_StopEndsStream ==
    /\ framesAfterStop <= 1
    /\ (~running /\ framesAfterStop = 1) => pc \in {"loop"} \cup ShutdownPcs
    /\ \A i \in 1..Len(out) : out[i].kind = "stopped" => i = Len(out)
    /\ (lexit = "stop" /\ firstOpen = "ok" /\ pc = "done") =>
          /\ cap.released
          /\ out[Len(out)].kind = "stopped"

(* STOP was applied during a frame, that frame's event was still written,  *)
(* and the supervisor then released the capture, wrote "stopped" and ended. *)
C2_Witness ==
    /\ lexit = "stop"
    /\ framesAfterStop = 1
    /\ exc = "none"
    /\ pc = "done"
    /\ cap.released
    /\ out[Len(out)].kind = "stopped"

C4_MalformedLineIgnored ==
    [][ \A line \in MalformedLines :
          ListenLine(line) =>
              /\ conf' = conf
              /\ target_classes' = target_classes
              /\ running' = running
              /\ lpc' = "read"
              /\ lexit' = lexit
              /\ exit' = exit ]_vars

(* A malformed line was read first, and the valid CONF:0.5 that followed   *)
(* it was applied.                                                         *)
C4_Witness ==
    /\ afterBad = "applied"
    /\ linesRead = 2
    /\ conf = 500
    /\ running
    /\ lpc = "read"

(* C5: the detection call of a frame runs with the threshold read when the *)
(* frame's processing started, whatever CONF is applied while the frame is *)
(* in flight; a frame that has just started has read the latest threshold  *)
(* applied.                                                                *)
C5_ThresholdReadAtFrameStart ==
    /\ pc \in {"pf_motion", "pf_rate"} => usedConf = confAtStart
    /\ pc \in {"pf_classes", "pf_predict"} => argConf = confAtStart
    /\ (pc \in InFlightPcs /\ ~confDuring) => confAtStart = conf

(* CONF:0.5 was applied while a frame was in flight: its detection ran     *)
(* with the threshold of the frame's start, 0.35.                          *)
C5_Witness ==
    /\ pc = "pf_motion"
    /\ confDuring
    /\ conf = 500
    /\ usedConf = DefaultConf

(* C6: after the ready line, the output holds one line per read attempt    *)
(* of the source, in read order: a frame event for a successful read and   *)
(* one frame_drop for a failed one; the only other line is the terminal    *)
(* one.  The attempt of the iteration in progress has its line once the    *)
(* iteration ends; an iteration cut short by a detection failure or an     *)
(* interrupt writes none.                                                  *)
C6_OneLinePerRead ==
    /\ out[1].kind = "ready"
    /\ \A i \in 2..Len(out) :
          \/ IsReadLine(out[i])
          \/ i = Len(out) /\ pc = "done" /\ out[i].kind \in {"stopped", "error"}
    /\ Len(ReadLines) = Len(readLog) - (IF pending THEN 1 ELSE 0)
    /\ \A i \in 1..Len(ReadLines) :
          ReadLines[i].kind = IF readLog[i] THEN "frame" ELSE "frame_drop"
    /\ pending => \/ pc \in {"drop", "pf_conf", "write"} \cup InFlightPcs
                  \/ pc \in ShutdownPcs /\ exc # "none"

(* Three frames, end of stream, one recovered frame: ready, frame events   *)
(* 1, 2, 3, one frame_drop, frame event 4.                                 *)
C6_Witness ==
    /\ readLog = << TRUE, TRUE, TRUE, FALSE, TRUE >>
    /\ out = << Line("ready", 0), Line("frame", 1), Line("frame", 2),
                Line("frame", 3), Line("frame_drop", 3), Line("frame", 4) >>

(* C7, as stated: after the first sample the estimate is that sample's     *)
(* instantaneous rate, and after every later sample it is 0.9 times the    *)
(* previous estimate plus 0.1 times the new instantaneous rate, samples    *)
(* with elapsed <= 0 (rate 0) included.                                    *)
C7_DocumentedRecurrence ==
    samples >= 1 => fps_ema = claimEma

(* C8: running starts true, is written only by the command listener as it *)
(* exits, and only from true to false: it is never set back to true.       *)
C8_RunningClearedOnceByListener ==
    /\ [](pc = "start" => running)
    /\ [][ /\ ~running => ~running'
           /\ running' # running => (lpc = "read" /\ lpc' = "done") ]_vars

(* STOP has cleared running before any frame was written after it, the    *)
(* capture has been reopened at least once, and the supervisor is at the   *)
(* loop test with running still false.                                     *)
C8_Witness ==
    /\ ~running
    /\ lexit = "stop"
    /\ opens >= 2
    /\ pc = "loop"
    /\ framesAfterStop = 0

(* C9, as stated: confidence_threshold stays within [0,1], whatever        *)
(* command lines are read.                                                 *)
C9_ThresholdInUnitInterval ==
    0 <= conf /\ conf <= 1000

(* C10: when the first open fails, the supervisor writes one error event   *)
(* and ends with status 1: no second open, no read, no frame event, no     *)
(* frame_drop, no stopped line.                                            *)
C10_FirstOpenFailureIsFatal ==
    firstOpen = "failed" =>
        /\ opens = 1
        /\ readLog = << >>
        /\ pc \in {"open_err", "done"}
        /\ pc = "open_err" => (out = << Line("ready", 0) >> /\ exit = Alive)
        /\ pc = "done" => /\ out = << Line("ready", 0), Line("error", 0) >>
                          /\ exit = 1

(* The first open failed and the process has ended.                        *)
C10_Witness ==
    /\ firstOpen = "failed"
    /\ pc = "done"
    /\ exit = 1
    /\ ~cap.opened

(* C11: after the first successful open, read failures and failed reopens *)
(* never end the streaming loop or the process: the supervisor leaves the  *)
(* loop only when running was cleared, a detection call failed or it was   *)
(* interrupted; and a frame the source yields leads to its frame event     *)
(* being written, unless one of these two cuts its processing short.       *)
C11_RetriesForever ==
    /\ []( /\ (firstOpen = "ok" /\ pc \in ShutdownPcs) =>
                  (~running \/ exc # "none")
           /\ pc # "done" => exit = Alive )
    /\ (pc = "pf_conf") ~>
          \/ pc = "loop" /\ ~pending /\ out[Len(out)].kind = "frame"
          \/ pc \in ShutdownPcs /\ exc # "none"

(* Two failed reads in a row with a failed reopen between them, then the   *)
(* source yielded a frame and its event was written, running still set.    *)
C11_Witness ==
    /\ \E i \in 1..(Len(readLog) - 2) :
          /\ ~readLog[i]
          /\ ~readLog[i + 1]
          /\ readLog[i + 2]
    /\ Len(readLog) >= 4
    /\ readLog[1]
    /\ opens >= 3
    /\ running
    /\ pc = "loop"
    /\ ~pending
    /\ out[Len(out)].kind = "frame"

(* C12: every line of the output is written by a step of the main thread:  *)
(* the ready line before the listener exists, every later line by run;    *)
(* no step of the listener writes to the output.                          *)
C12_MainThreadIsTheOnlyWriter ==
    /\ [](lpc = "idle" => out = << Line("ready", 0) >>)
    /\ [][ out' # out => (pc' # pc /\ UNCHANGED listenerVars) ]_vars

(* The listener has read two lines and is still reading, while the main    *)
(* thread has written a frame event and a frame_drop after the ready line. *)
C12_Witness ==
    /\ lpc = "read"
    /\ linesRead = 2
    /\ \E i, j \in 2..Len(out) :
          out[i].kind = "frame" /\ out[j].kind = "frame_drop"

TrueReads == Cardinality({i \in 1..Len(readLog) : readLog[i]})

(* C13: a failed detection call is fatal: the frame it was called for is   *)
(* the last one read and has no frame event, the frame counter was not     *)
(* incremented for it, the supervisor is in its shutdown and reads no      *)
(* more, and the process ends with status 1.                               *)
C13_DetectionFailureIsFatal ==
    exc = "error" =>
        /\ pc \in ShutdownPcs
        /\ pending
        /\ readLog[Len(readLog)]
        /\ frame_count = TrueReads - 1
        /\ Len(FrameLines) = TrueReads - 1
        /\ exit = IF pc = "done" THEN 1 ELSE Alive
        /\ pc = "done" => out[Len(out)].kind = "stopped"

(* The detection call failed on the third frame read: two frame events     *)
(* were written, the counter is 2, and the process has ended with 1.       *)
C13_Witness ==
    /\ exc = "error"
    /\ pc = "done"
    /\ exit = 1
    /\ TrueReads = 3
    /\ frame_count = 2
    /\ Len(FrameLines) = 2

StoppedLines == {i \in 1..Len(out) : out[i].kind = "stopped"}

(* C14: on an operator-requested stop the supervisor releases the capture  *)
(* first and then writes the stopped status, once; stopped is the last     *)
(* line of the output and the process ends with status 0.                  *)
C14_OrderlyStop ==
    /\ Cardinality(StoppedLines) <= 1
    /\ StoppedLines \subseteq {Len(out)}
    /\ pc = "stopped" => (cap.released /\ StoppedLines = {})
    /\ StoppedLines # {} => (cap.released /\ pc = "done")
    /\ (lexit = "stop" /\ exc = "none" /\ firstOpen = "ok" /\ pc = "done") =>
          /\ StoppedLines = {Len(out)}
          /\ exit = 0

(* STOP was read after two frame events and a reconnect; the loop ended,   *)
(* the capture was released, stopped was written and the status is 0.      *)
C14_Witness ==
    /\ lexit = "stop"
    /\ exc = "none"
    /\ pc = "done"
    /\ exit = 0
    /\ cap.released
    /\ opens = 2
    /\ Len(FrameLines) = 2
    /\ out[Len(out)].kind = "stopped"


(* r is x rounded to a multiple of unit. *)
IsRounded(r, x, unit) == r % unit = 0 /\ 2 * Abs(r - x) <= unit

(* C15, as stated: in every frame event about to be written, each          *)
(* detection's confidence and the motion score are multiples of 0.001, and *)
(* fps and inference_ms are multiples of 0.1.                              *)
C15_MotionToThreeDecimals ==
    pc = "write" =>
        /\ \A i \in 1..Len(result.detections) :
               result.detections[i].conf % 100 = 0
        /\ result.motion % 1000 = 0
        /\ result.fps % (Scale \div 10) = 0
        /\ result.inference_ms % 10 = 0

(* C15, amended: when process_frame assembles its record, every box the    *)
(* engine returned appears with its confidence rounded to 3 decimals, the  *)
(* motion score is rounded to 4 decimals, and fps and inference_ms are the *)
(* rate estimate and the elapsed time rounded to 1 decimal.                *)
C15_RoundedAsCoded ==
    [][(pc = "pf_rate" /\ pc' = "write") =>
          /\ Len(result'.detections) = Len(results)
          /\ \A i \in 1..Len(results) :
                 /\ result'.detections[i].cls = results[i].cls
                 /\ IsRounded(result'.detections[i].conf, results[i].conf,
                              100)
          /\ IsRounded(result'.motion, motion, 100)
          /\ IsRounded(result'.fps, fps_ema', Scale \div 10)
          /\ \E e \in ElapsedTicks :
                 IsRounded(result'.inference_ms, e, 10)]_vars

(* A record whose four kinds of number were all changed by the rounding:   *)
(* 0.87654 -> 0.877, 0.745098 -> 0.7451, 6.661337 -> 6.7, 150.12 -> 150.1. *)
C15_Witness ==
    /\ pc = "write"
    /\ \E i \in 1..Len(result.detections) :
           result.detections[i].conf = 87700
    /\ result.motion = 745100
    /\ result.fps = 6700000
    /\ result.inference_ms = 15010


(* C16, as stated: the old handle is already released while the supervisor *)
(* pauses.                                                                 *)
C16_ReleasedWhilePausing == pc = "sleep" => cap.released

(* C16, amended: after a failed read the supervisor emits frame_drop, then *)
(* pauses, then releases the handle, then reopens; the handle the read     *)
(* failed on is still held during the pause and until the release, is      *)
(* released when the reopen starts, and no step is entered out of order.   *)
C16_PauseBeforeRelease ==
    /\ [](pc \in {"sleep", "release"} =>
             /\ ~cap.released
             /\ out # << >>
             /\ out[Len(out)].kind = "frame_drop"
             /\ ~readLog[Len(readLog)])
    /\ [](pc = "reopen" => cap.released)
    /\ [][/\ pc = "drop" => pc' \in {"drop", "sleep", "finally"}
          /\ pc = "sleep" => pc' \in {"sleep", "release", "finally"}
          /\ pc = "release" => pc' \in {"release", "reopen", "finally"}
          /\ pc = "reopen" => pc' \in {"reopen", "loop", "finally"}
          /\ (pc' = "sleep" /\ pc # "sleep") => pc = "drop"
          /\ (pc' = "release" /\ pc # "release") => pc = "sleep"
          /\ (pc' = "reopen" /\ pc # "reopen") => pc = "release"]_vars

(* The pause of a second recovery is over and the handle, itself the       *)
(* product of an earlier reopen, has not been released yet.                *)
C16_Witness ==
    /\ pc = "release"
    /\ ~cap.released
    /\ opens >= 2
    /\ out[Len(out)].kind = "frame_drop"


(* The score the claim gives a frame of gray image g whose predecessor had *)
(* gray image last (NoGray: there was none), in 1/1000000.                 *)
ScoreAgainst(last, g) ==
    IF last = NoGray THEN 0 ELSE (Abs(last - g) * 1000000) \div 255

(* C17: compute_motion gives the first frame 0 and every later frame its   *)
(* difference from the frame processed just before it, 0 when the two are  *)
(* equal; it always stores the current frame; and the steps of a reconnect *)
(* leave the stored frame as it was.                                       *)
C17_MotionAgainstPrecedingFrame ==
    [][/\ (pc = "pf_motion" /\ pc' = "pf_rate") =>
             /\ (lastGray = NoGray) = (frame_count = 0)
             /\ frame_count = 0 => motion' = 0
             /\ lastGray = Gray(frame) => motion' = 0
             /\ motion' = ScoreAgainst(lastGray, Gray(frame))
             /\ prev_gray' = Gray(frame)
       /\ pc \in {"read", "drop", "sleep", "release", "reopen", "loop"} =>
             prev_gray' = prev_gray]_vars

(* A frame scored above 0 against its predecessor although a failed read   *)
(* and a reconnect came between the two.                                   *)
C17_Witness ==
    /\ pc = "pf_rate"
    /\ motion > 0
    /\ prev_gray = Gray(frame)
    /\ lastGray # NoGray
    /\ out # << >>
    /\ out[Len(out)].kind = "frame_drop"
    /\ opens >= 2


(* C18: once a STOP line has been applied the listener is finished: no     *)
(* further line is read, and confidence threshold and class filter never   *)
(* change again.                                                           *)
C18_StopEndsListener ==
    [][lexit = "stop" =>
          /\ lpc = "done" /\ lpc' = "done"
          /\ linesRead' = linesRead
          /\ conf' = conf
          /\ target_classes' = target_classes]_vars

(* The run is over, STOP was applied, and input the listener could still   *)
(* have read was left unread.                                              *)
C18_Witness ==
    /\ lexit = "stop"
    /\ lpc = "done"
    /\ linesRead < MaxLines
    /\ pc = "done"


(* The frame field of the last frame event among the first i - 1 lines of  *)
(* the output, 0 when there is none.                                       *)
LastFrameBefore(i) ==
    LET S == {j \in 1..(i - 1) : out[j].kind = "frame"}
    IN  IF S = {} THEN 0
        ELSE out[CHOOSE j \in S : \A k \in S : k <= j].frame

(* C19: every frame_drop diagnostic carries the index of the last frame    *)
(* event written before it, 0 when there is none, so diagnostics with no   *)
(* frame event between them carry the same value; and no step from a       *)
(* failed read to the reopen changes the frame counter.                    *)
C19_DropCarriesLastFrameIndex ==
    /\ [](\A i \in 1..Len(out) :
             out[i].kind = "frame_drop" => out[i].frame = LastFrameBefore(i))
    /\ [][/\ (pc = "read" /\ pc' = "drop") => frame_count' = frame_count
          /\ pc \in {"drop", "sleep", "release", "reopen"} =>
                frame_count' = frame_count]_vars

(* Two failed reads in a row after at least one frame event: both          *)
(* diagnostics carry that frame's index.                                   *)
C19_Witness ==
    \E i \in 1..(Len(out) - 1) :
        /\ out[i].kind = "frame_drop"
        /\ out[i + 1].kind = "frame_drop"
        /\ out[i].frame >= 1
        /\ out[i + 1].frame = out[i].frame


(* C20: a run whose first open succeeded and has ended, however its loop   *)
(* ended, has written stopped as its last line, after releasing the        *)
(* capture; a run whose first open failed never writes stopped; no run     *)
(* writes it twice.                                                        *)
C20_StoppedIffStreamed ==
    /\ firstOpen = "failed" => \A i \in 1..Len(out) : out[i].kind # "stopped"
    /\ (firstOpen = "ok" /\ pc = "done") =>
          /\ out # << >>
          /\ out[Len(out)].kind = "stopped"
          /\ cap.released
    /\ \A i, j \in 1..Len(out) :
          (out[i].kind = "stopped" /\ out[j].kind = "stopped") => i = j
    /\ (\E i \in 1..Len(out) : out[i].kind = "stopped") =>
          (firstOpen = "ok" /\ cap.released)

(* A failed detection ended the loop while running was still true: the     *)
(* capture is released and stopped is the last line.                       *)
C20_Witness ==
    /\ pc = "done"
    /\ firstOpen = "ok"
    /\ exc = "error"
    /\ running
    /\ cap.released
    /\ out[Len(out)].kind = "stopped"
    /\ Len(FrameLines) >= 1

====
